---- MODULE Spec2Model ----
(***************************************************************************)
(* Modbus CRC16 of benchmark.py: the table-driven checksum                 *)
(* crc16_pure_python, the bit-level reduction the table is derived from,   *)
(* and the validation / benchmark flow of main().                          *)
(***************************************************************************)
EXTENDS Integers, Sequences, FiniteSets, TLC

VARIABLES
    table,      \* the tuple constant bound to `table` in crc16_pure_python
    inv,        \* inv[i]: the frame of invocation i of crc16_pure_python
    mpc,        \* main(): position
    impl,       \* main(): which implementation the imported modbus_crc has
    result1,    \* main(): modbus_crc.crc16(test_data)
    result2,    \* main(): crc16_pure_python(test_data)
    sizeIdx,    \* main(): index into test_sizes of the row being measured
    data,       \* main(): the buffer handed to benchmark()
    iterations, \* main(): the iteration count handed to benchmark()
    func,       \* benchmark(): the function being timed
    iter,       \* benchmark(): calls made so far in the timing loop
    last,       \* benchmark(): the value of `_`, the last checksum returned
    benchCalls, \* calls made from benchmark(), per function
    rows        \* rows printed in the performance table: <<label bytes, len(data)>>

vars == <<table, inv, mpc, impl, result1, result2, sizeIdx, data, iterations,
          func, iter, last, benchCalls, rows>>

mainVars == <<mpc, impl, result1, result2, sizeIdx, data, iterations,
              func, iter, last, benchCalls, rows>>

----------------------------------------------------------------------------
(* Bounds of the model *)

\* longest input of the single-invocation specification
MaxLen == 3
\* number of interleaved invocations of the concurrent specification
NumCalls == 2
\* longest input of the concurrent specification
ConcMaxLen == 2

\* byte values the longer inputs are built from
ByteSample == {0, 1, 3, 6, 128, 255}
ConcBytes == {1, 255}
AllBytes == 0..255

SeqsUpTo(S, n) == UNION {[1..k -> S] : k \in 0..n}

----------------------------------------------------------------------------
(* Integer operations of the source *)

RECURSIVE Xor(_, _)
\* a ^ b on non-negative integers
Xor(a, b) ==
    IF a = 0 THEN b
    ELSE IF b = 0 THEN a
    ELSE (((a % 2) + (b % 2)) % 2) + 2 * Xor(a \div 2, b \div 2)

----------------------------------------------------------------------------
(* crc16_pure_python *)

TableLiteral == <<
        0, 49345, 49537,   320, 49921,   960,   640, 49729,
    50689,  1728,  1920, 51009,  1280, 50625, 50305,  1088,
    52225,  3264,  3456, 52545,  3840, 53185, 52865,  3648,
     2560, 51905, 52097,  2880, 51457,  2496,  2176, 51265,
    55297,  6336,  6528, 55617,  6912, 56257, 55937,  6720,
     7680, 57025, 57217,  8000, 56577,  7616,  7296, 56385,
     5120, 54465, 54657,  5440, 55041,  6080,  5760, 54849,
    53761,  4800,  4992, 54081,  4352, 53697, 53377,  4160,
    61441, 12480, 12672, 61761, 13056, 62401, 62081, 12864,
    13824, 63169, 63361, 14144, 62721, 13760, 13440, 62529,
    15360, 64705, 64897, 15680, 65281, 16320, 16000, 65089,
    64001, 15040, 15232, 64321, 14592, 63937, 63617, 14400,
    10240, 59585, 59777, 10560, 60161, 11200, 10880, 59969,
    60929, 11968, 12160, 61249, 11520, 60865, 60545, 11328,
    58369,  9408,  9600, 58689,  9984, 59329, 59009,  9792,
     8704, 58049, 58241,  9024, 57601,  8640,  8320, 57409,
    40961, 24768, 24960, 41281, 25344, 41921, 41601, 25152,
    26112, 42689, 42881, 26432, 42241, 26048, 25728, 42049,
    27648, 44225, 44417, 27968, 44801, 28608, 28288, 44609,
    43521, 27328, 27520, 43841, 26880, 43457, 43137, 26688,
    30720, 47297, 47489, 31040, 47873, 31680, 31360, 47681,
    48641, 32448, 32640, 48961, 32000, 48577, 48257, 31808,
    46081, 29888, 30080, 46401, 30464, 47041, 46721, 30272,
    29184, 45761, 45953, 29504, 45313, 29120, 28800, 45121,
    20480, 37057, 37249, 20800, 37633, 21440, 21120, 37441,
    38401, 22208, 22400, 38721, 21760, 38337, 38017, 21568,
    39937, 23744, 23936, 40257, 24320, 40897, 40577, 24128,
    23040, 39617, 39809, 23360, 39169, 22976, 22656, 38977,
    34817, 18624, 18816, 35137, 19200, 35777, 35457, 19008,
    19968, 36545, 36737, 20288, 36097, 19904, 19584, 35905,
    17408, 33985, 34177, 17728, 34561, 18368, 18048, 34369,
    33281, 17088, 17280, 33601, 16640, 33217, 32897, 16448
>>

\* the literal with one digit of entry 0x86 mistyped (0xA281 -> 0xA381)
TableTypo == [TableLiteral EXCEPT ![135] = 41857]

Table == TableLiteral

\* the seed typed one digit short: 0xFFF
SeedDroppedDigit == 65535 \div 16

\* crc = 0xFFFF
Seed == 65535

\* the index with the mask dropped: crc ^ byte
TableIndexNoMask(crc, byte) == Xor(crc, byte)

\* (crc ^ byte) & 0xFF
TableIndex(crc, byte) == Xor(crc, byte) % 256

\* the update with the shift reversed: (crc << 8) ^ table[...]
CrcStepShiftLeft(t, crc, byte) == Xor(crc * 256, t[TableIndex(crc, byte) + 1])

\* crc = (crc >> 8) ^ table[(crc ^ byte) & 0xFF]
CrcStep(t, crc, byte) == Xor(crc \div 256, t[TableIndex(crc, byte) + 1])

\* the list with the two bytes swapped: high byte first
EncodeBigEndian(crc) == <<crc \div 256, crc % 256>>

\* [crc & 0xFF, crc >> 8], the list handed to bytes()
Encode(crc) == <<crc % 256, crc \div 256>>

\* bytes(list) raises ValueError unless every element is in range(256)
BytesAccepts(l) == \A k \in DOMAIN l : l[k] \in 0..255

RECURSIVE CrcLoop(_, _, _)
\* for byte in data: crc = ...   (started from accumulator crc).  The bytes
\* are taken in sequence order; a run over d is evaluated as the run over its
\* first half followed by the run over its second half from the accumulator
\* the first half left, which keeps the evaluation depth logarithmic in len(d)
\* (the guard c >= 0 always holds: it has c evaluated before the second half).
CrcLoop(t, crc, d) ==
    IF d = <<>> THEN crc
    ELSE IF Len(d) = 1 THEN CrcStep(t, crc, d[1])
    ELSE LET h == Len(d) \div 2
             c == CrcLoop(t, crc, SubSeq(d, 1, h))
         IN IF c >= 0 THEN CrcLoop(t, c, SubSeq(d, h + 1, Len(d))) ELSE c

\* one whole call, run alone
crc16_pure_python(d) == Encode(CrcLoop(Table, Seed, d))

----------------------------------------------------------------------------
(* The bit-level reduction (spec section 4.2): the reference the table is   *)
(* derived from.  benchmark.py holds no bit-level routine.                  *)

\* reflected Modbus polynomial 0xA001
Poly == 40961

\* one of the 8 iterations: shift right, XOR the polynomial if the low bit was 1
BitStep(v) == IF v % 2 = 1 THEN Xor(v \div 2, Poly) ELSE v \div 2

RECURSIVE Reduce(_, _)
Reduce(v, n) == IF n = 0 THEN v
    ELSE LET w == BitStep(v) IN IF w >= 0 THEN Reduce(w, n - 1) ELSE w

\* accumulator ^= b, then 8 iterations
BitwiseByte(crc, b) == Reduce(Xor(crc, b), 8)

RECURSIVE BitwiseLoop(_, _)
\* for each input byte in sequence order (evaluated by halves, as CrcLoop)
BitwiseLoop(crc, d) ==
    IF d = <<>> THEN crc
    ELSE IF Len(d) = 1 THEN BitwiseByte(crc, d[1])
    ELSE LET h == Len(d) \div 2
             c == BitwiseLoop(crc, SubSeq(d, 1, h))
         IN IF c >= 0 THEN BitwiseLoop(c, SubSeq(d, h + 1, Len(d))) ELSE c

\* section 4.3: the 256 entries generated by the bit-level reduction
ReductionTable == [k \in 0..255 |-> Reduce(k, 8)]

\* section 8: the bit-level CRC of the single byte k, accumulator seeded to 0
ZeroSeedCrc == [k \in 0..255 |-> BitwiseLoop(0, <<k>>)]

\* seed 0xFFFF, result low byte first
BitwiseCrc16(d) ==
    LET c == BitwiseLoop(65535, d) IN <<c % 256, c \div 256>>

----------------------------------------------------------------------------
(* Invocations of crc16_pure_python, one loop iteration per step *)

Calls == 1..NumCalls

\* b'\x01\x03\x00\x00\x00\x06'
test_data == <<1, 3, 0, 0, 0, 6>>

Inputs == SeqsUpTo(ByteSample, MaxLen) \cup {<<b>> : b \in AllBytes} \cup {test_data}
ConcInputs == SeqsUpTo(ConcBytes, ConcMaxLen)

IdleFrame ==
    [pc |-> "idle", data |-> <<>>, pos |-> 0, crc |-> 0,
     consumed |-> <<>>, idx |-> 0, result |-> <<>>]

\* the accumulator every invocation would use were crc a module-level global
AccGlobal(i) == inv[1].crc

\* the accumulator of invocation i: its own local crc
Acc(i) == inv[i].crc

\* iteration in reverse: for byte in reversed(data)
ByteAtReversed(d, pos) == d[Len(d) - pos]

\* for byte in data: the byte of iteration pos (0-based)
ByteAt(d, pos) == d[pos + 1]

\* def crc16_pure_python(data): ... crc = 0xFFFF
Call(i, d) ==
    /\ inv[i].pc = "idle"
    /\ inv' = [inv EXCEPT ![i] =
                  [pc |-> "loop", data |-> d, pos |-> 0, crc |-> Seed,
                   consumed |-> <<>>, idx |-> 0, result |-> <<>>]]
    /\ UNCHANGED <<table, mainVars>>

\* one iteration of the for loop; an index outside the tuple raises IndexError
StepByte(i) ==
    LET f == inv[i]
        byte == ByteAt(f.data, f.pos)
        k == TableIndex(Acc(i), byte)
    IN  /\ f.pc = "loop"
        /\ f.pos < Len(f.data)
        /\ inv' = [inv EXCEPT ![i] =
                      IF k \in (-Len(table))..(Len(table) - 1)
                      THEN [f EXCEPT !.crc = CrcStep(table, Acc(i), byte),
                                     !.pos = f.pos + 1,
                                     !.consumed = Append(f.consumed, byte),
                                     !.idx = k]
                      ELSE [f EXCEPT !.pc = "raised", !.idx = k]]
        /\ UNCHANGED <<table, mainVars>>

\* return bytes([crc & 0xFF, crc >> 8])
Return(i) ==
    LET f == inv[i]
        l == Encode(f.crc)
    IN  /\ f.pc = "loop"
        /\ f.pos = Len(f.data)
        /\ inv' = [inv EXCEPT ![i] =
                      IF BytesAccepts(l)
                      THEN [f EXCEPT !.pc = "done", !.result = l]
                      ELSE [f EXCEPT !.pc = "raised"]]
        /\ UNCHANGED <<table, mainVars>>

\* _ = func(data): the caller holds the returned bytes until its next call
Release(i) ==
    /\ inv[i].pc = "done"
    /\ inv' = [inv EXCEPT ![i] = IdleFrame]
    /\ UNCHANGED <<table, mainVars>>

MainStart ==
    /\ mpc = "start"
    /\ result1 = <<>>
    /\ result2 = <<>>
    /\ sizeIdx = 0
    /\ data = <<>>
    /\ iterations = 0
    /\ func = "none"
    /\ iter = 0
    /\ last = <<>>
    /\ benchCalls = [f \in {"modbus_crc", "pure_python"} |-> 0]
    /\ rows = <<>>

Init ==
    /\ table = Table
    /\ inv = [i \in Calls |-> IdleFrame]
    /\ impl = "table"
    /\ MainStart

\* one caller, calling again and again
Next ==
    \/ \E d \in Inputs : Call(1, d)
    \/ StepByte(1)
    \/ Return(1)
    \/ Release(1)

Spec == Init /\ [][Next]_vars

\* NumCalls callers whose loop iterations interleave
NextConc ==
    \E i \in Calls :
        \/ \E d \in ConcInputs : Call(i, d)
        \/ StepByte(i)
        \/ Return(i)
        \/ Release(i)

SpecConc == Init /\ [][NextConc]_vars

----------------------------------------------------------------------------
(* main(): validation, then the benchmark rows *)

\* The imported modbus_crc module is not part of benchmark.py.  Its crc16 is
\* the table strategy of spec section 4.1 ("table"), or a build that does not
\* conform to it: the result high byte first ("bigendian"), or the
\* accumulator seeded with 0 ("seed0").
ModbusImpls == {"table", "bigendian", "seed0"}

ModbusCrc16(im, d) ==
    CASE im = "table"     -> LET c == CrcLoop(Table, 65535, d) IN <<c % 256, c \div 256>>
      [] im = "bigendian" -> LET c == CrcLoop(Table, 65535, d) IN <<c \div 256, c % 256>>
      [] im = "seed0"     -> LET c == CrcLoop(Table, 0, d) IN <<c % 256, c \div 256>>

\* test_sizes: <<size, the byte count the label states>>
test_sizes ==
    << <<6, 6>>, <<8, 8>>, <<32, 32>>, <<64, 64>>,
       <<256, 256>>, <<512, 512>>, <<1024, 1024>> >>

Min(a, b) == IF a < b THEN a ELSE b
Max(a, b) == IF a > b THEN a ELSE b

\* bytes(range(n))
BytesRange(n) == [k \in 1..n |-> k - 1]

RECURSIVE Repeat(_, _)
\* s * n
Repeat(s, n) == IF n <= 0 THEN <<>> ELSE s \o Repeat(s, n - 1)

\* s[:n], n >= 0
SliceTo(s, n) == SubSeq(s, 1, Min(n, Len(s)))

\* data = bytes(range(size % 256)) * (size // 256 + 1); data = data[:size]
BuildData(size) ==
    SliceTo(Repeat(BytesRange(size % 256), (size \div 256) + 1), size)

\* iterations = max(100, 10000 // (size + 1))
IterationsFor(size) == Max(100, 10000 \div (size + 1))

\* the comparison with the early return lost: the benchmark runs regardless
ResultsMatchAlways(r1, r2) == TRUE

\* if result1 == result2
ResultsMatch(r1, r2) == r1 = r2

\* func(data) inside benchmark()
CallFunc(fn, d) ==
    IF fn = "modbus_crc" THEN ModbusCrc16(impl, d) ELSE crc16_pure_python(d)

\* test_data = ...; result1 = modbus_crc.crc16(test_data); result2 = crc16_pure_python(test_data)
Validate ==
    /\ mpc = "start"
    /\ result1' = ModbusCrc16(impl, test_data)
    /\ result2' = crc16_pure_python(test_data)
    /\ mpc' = "validated"
    /\ UNCHANGED <<table, inv, impl, sizeIdx, data, iterations, func, iter,
                   last, benchCalls, rows>>

\* "Results match!": go on to the rows of test_sizes
Matched ==
    /\ mpc = "validated"
    /\ ResultsMatch(result1, result2)
    /\ mpc' = "rows"
    /\ sizeIdx' = 1
    /\ UNCHANGED <<table, inv, impl, result1, result2, data, iterations, func,
                   iter, last, benchCalls, rows>>

\* "Results differ!": return
Differ ==
    /\ mpc = "validated"
    /\ ~ResultsMatch(result1, result2)
    /\ mpc' = "returned"
    /\ UNCHANGED <<table, inv, impl, result1, result2, sizeIdx, data, iterations,
                   func, iter, last, benchCalls, rows>>

\* for size, label in test_sizes: build the buffer, enter benchmark(modbus_crc.crc16, ...)
StartRow ==
    /\ mpc = "rows"
    /\ sizeIdx <= Len(test_sizes)
    /\ data' = BuildData(test_sizes[sizeIdx][1])
    /\ iterations' = IterationsFor(test_sizes[sizeIdx][1])
    /\ func' = "modbus_crc"
    /\ iter' = 0
    /\ mpc' = "bench"
    /\ UNCHANGED <<table, inv, impl, result1, result2, sizeIdx, last,
                   benchCalls, rows>>

\* benchmark(): for _ in range(iterations): _ = func(data)
BenchCall ==
    /\ mpc \in {"bench", "throughput"}
    /\ iter < iterations
    /\ last' = CallFunc(func, data)
    /\ iter' = iter + 1
    /\ benchCalls' = [benchCalls EXCEPT ![func] = @ + 1]
    /\ UNCHANGED <<table, inv, mpc, impl, result1, result2, sizeIdx, data,
                   iterations, func, rows>>

\* benchmark() returns to main, which enters benchmark(crc16_pure_python, ...)
BenchSecond ==
    /\ mpc \in {"bench", "throughput"}
    /\ iter = iterations
    /\ func = "modbus_crc"
    /\ func' = "pure_python"
    /\ iter' = 0
    /\ UNCHANGED <<table, inv, mpc, impl, result1, result2, sizeIdx, data,
                   iterations, last, benchCalls, rows>>

\* the second benchmark() returns: the row is printed, next entry of test_sizes
EndRow ==
    /\ mpc = "bench"
    /\ iter = iterations
    /\ func = "pure_python"
    /\ rows' = Append(rows, <<test_sizes[sizeIdx][2], Len(data)>>)
    /\ sizeIdx' = sizeIdx + 1
    /\ mpc' = "rows"
    /\ UNCHANGED <<table, inv, impl, result1, result2, data, iterations, func,
                   iter, last, benchCalls>>

\* after the loop: data = bytes(range(256)); iterations = 1000
StartThroughput ==
    /\ mpc = "rows"
    /\ sizeIdx > Len(test_sizes)
    /\ data' = BytesRange(256)
    /\ iterations' = 1000
    /\ func' = "modbus_crc"
    /\ iter' = 0
    /\ mpc' = "throughput"
    /\ UNCHANGED <<table, inv, impl, result1, result2, sizeIdx, last,
                   benchCalls, rows>>

\* "Benchmark completed!"
Finish ==
    /\ mpc = "throughput"
    /\ iter = iterations
    /\ func = "pure_python"
    /\ mpc' = "done"
    /\ UNCHANGED <<table, inv, impl, result1, result2, sizeIdx, data, iterations,
                   func, iter, last, benchCalls, rows>>

\* main() with whichever modbus_crc the environment provides
InitMain ==
    /\ table = Table
    /\ inv = [i \in Calls |-> IdleFrame]
    /\ impl \in ModbusImpls
    /\ MainStart

NextMain ==
    \/ Validate
    \/ Matched
    \/ Differ
    \/ StartRow
    \/ BenchCall
    \/ BenchSecond
    \/ EndRow
    \/ StartThroughput
    \/ Finish

SpecMain == InitMain /\ [][NextMain]_vars

----------------------------------------------------------------------------
(* Properties *)

Started(i) == inv[i].pc # "idle"
Done(i) == inv[i].pc = "done"
Prefix(i) == SubSeq(inv[i].data, 1, inv[i].pos)
Suffix(i, k) == SubSeq(inv[i].data, k + 1, Len(inv[i].data))

\* C1: for every input, the table-driven computation agrees with the bitwise
\* reference: after every processed byte the accumulator equals the accumulator
\* of the bit-level loop over the bytes processed so far, and the two bytes
\* returned equal the two bytes the reference returns.
C1_TableEqualsBitwise ==
    \A i \in Calls :
        /\ inv[i].pc \in {"loop", "done"} => inv[i].crc = BitwiseLoop(65535, Prefix(i))
        /\ Done(i) => inv[i].result = BitwiseCrc16(inv[i].data)

C1_Witness ==
    /\ Done(1)
    /\ Len(inv[1].data) = 3
    /\ inv[1].data[1] # inv[1].data[2]
    /\ inv[1].result = BitwiseCrc16(inv[1].data)

\* C2: the checksum of the validation frame 01 03 00 00 00 06 is the two bytes
\* 0xC5 0xC8 in that order, the accumulator being 0xC8C5.
C2_KnownVector ==
    mpc # "start" =>
        /\ result2 = <<197, 200>>
        /\ CrcLoop(table, Seed, test_data) = 51397
        /\ Encode(51397) = result2

C2_Witness == mpc = "validated" /\ result2 = <<197, 200>>

\* C3: a call on the empty byte sequence returns the seed unchanged, low byte
\* first: the two bytes 0xFF 0xFF.
C3_EmptyInput ==
    \A i \in Calls :
        (Done(i) /\ inv[i].data = <<>>) =>
            /\ inv[i].result = <<255, 255>>
            /\ inv[i].crc = 65535

C3_Witness == Done(1) /\ inv[1].data = <<>> /\ inv[1].pos = 0

\* C4: the accumulator is a 16-bit unsigned value from the start of a call
\* and after every byte; the result is exactly two bytes, each in 0..255, the
\* low byte of the accumulator first and its high byte second.
C4_SixteenBitResult ==
    \A i \in Calls :
        /\ Started(i) => inv[i].crc \in 0..65535
        /\ Done(i) =>
              /\ Len(inv[i].result) = 2
              /\ \A k \in 1..2 : inv[i].result[k] \in 0..255
              /\ inv[i].result[1] = inv[i].crc % 256
              /\ inv[i].result[2] = inv[i].crc \div 256

C4_Witness ==
    /\ Done(1)
    /\ Len(inv[1].data) = 3
    /\ inv[1].result[1] # inv[1].result[2]
    /\ inv[1].crc > 255

\* C5: a call cannot fail: no step raises, every table index used lies in
\* 0..255, the bytes are consumed once each in sequence order, a call in its
\* loop can always take its next step, and it returns after exactly len(data)
\* per-byte steps.
C5_CannotFail ==
    \A i \in Calls :
        /\ inv[i].pc # "raised"
        /\ inv[i].idx \in 0..255
        /\ inv[i].idx < Len(table)
        /\ Started(i) => inv[i].consumed = Prefix(i)
        /\ inv[i].pc = "loop" => ENABLED (StepByte(i) \/ Return(i))
        /\ Done(i) =>
              /\ inv[i].pos = Len(inv[i].data)
              /\ inv[i].consumed = inv[i].data
              /\ Len(inv[i].result) = 2

C5_Witness ==
    /\ Done(1)
    /\ inv[1].data = test_data
    /\ inv[1].consumed = test_data

\* Interleaved invocations do not disturb one another: each returns what
\* a call run alone on its input returns, two invocations on the same input
\* return the same bytes, the table keeps its value, and a step changes the
\* frame of one invocation only.
C6_Isolated ==
    \A i \in Calls :
        /\ table = Table
        /\ Done(i) => inv[i].result = crc16_pure_python(inv[i].data)
        /\ inv[i].pc \in {"loop", "done"} => inv[i].crc = CrcLoop(Table, Seed, Prefix(i))
        /\ \A j \in Calls :
              (Done(i) /\ Done(j) /\ inv[i].data = inv[j].data)
                  => inv[i].result = inv[j].result

\* C6: the checksum operation is pure and reentrant: in every behaviour of the
\* interleaved invocations C6_Isolated holds in every state, no step changes
\* the table, and no step changes the frame of more than one invocation.
C6_Reentrant ==
    /\ [] C6_Isolated
    /\ [][ /\ table' = table
           /\ \A i \in Calls : inv'[i] # inv[i] =>
                  \A j \in Calls \ {i} : inv'[j] = inv[j] ]_vars

C6_Witness ==
    /\ inv[1].pc = "loop"
    /\ inv[1].pos = 1
    /\ Done(2)
    /\ Len(inv[2].data) = 2
    /\ inv[1].data = inv[2].data
    /\ inv[1].crc # inv[2].crc

\* C7: a mismatch at validation is fatal: once modbus_crc.crc16 and
\* crc16_pure_python have disagreed on the validation frame, main has returned
\* or is about to, no benchmark call of either function has been made and no
\* row has been printed; and every checksum that is produced comes from a
\* table whose 256 entries equal the bit-level reduction of their index.
C7_MismatchIsFatal ==
    /\ (mpc # "start" /\ result1 # result2) =>
          /\ mpc \in {"validated", "returned"}
          /\ \A f \in DOMAIN benchCalls : benchCalls[f] = 0
          /\ last = <<>>
          /\ rows = <<>>
    /\ (mpc # "start" /\ result1 = result2) => mpc # "returned"
    /\ (mpc # "start" \/ \E f \in DOMAIN benchCalls : benchCalls[f] > 0) =>
          \A k \in 0..255 : table[k + 1] = ReductionTable[k]

C7_Witness ==
    /\ mpc = "returned"
    /\ result1 # result2
    /\ result2 = <<197, 200>>

\* C8: the embedded table has exactly 256 entries, each in 0..0xFFFF, and
\* entry i is the 8-iteration reflected reduction of i, which is the bitwise
\* CRC of the single byte i with the accumulator seeded to 0.
C8_TableIsReduction ==
    /\ Len(table) = 256
    /\ \A k \in 0..255 :
          /\ table[k + 1] \in 0..65535
          /\ table[k + 1] = ReductionTable[k]
          /\ table[k + 1] = ZeroSeedCrc[k]

C8_Witness ==
    /\ Done(1)
    /\ inv[1].data = <<121>>
    /\ inv[1].idx = 134
    /\ inv[1].crc = Xor(255, table[135])

\* C9: the computation is incremental: two runs that have processed the same
\* bytes hold the same accumulator; a run that has processed one byte b more
\* than another holds the per-byte step of b applied to the other's
\* accumulator; and processing the rest of the input from the accumulator a
\* run over a prefix has left gives the final accumulator of the whole input.
C9_Incremental ==
    \A i, j \in Calls :
        (inv[i].pc \in {"loop", "done"} /\ inv[j].pc \in {"loop", "done"}) =>
            /\ Prefix(i) = Prefix(j) => inv[i].crc = inv[j].crc
            /\ (inv[i].pos > 0 /\ SubSeq(inv[i].data, 1, inv[i].pos - 1) = Prefix(j)) =>
                  inv[i].crc = CrcStep(table, inv[j].crc, inv[i].data[inv[i].pos])
            /\ (Done(i) /\ inv[j].pos <= Len(inv[i].data)
                  /\ SubSeq(inv[i].data, 1, inv[j].pos) = Prefix(j)) =>
                  inv[i].crc = CrcLoop(table, inv[j].crc, Suffix(i, inv[j].pos))

C9_Witness ==
    /\ Done(1)
    /\ inv[1].data = <<1, 255>>
    /\ Done(2)
    /\ inv[2].data = <<1>>
    /\ inv[1].crc = CrcStep(table, inv[2].crc, 255)

\* C10: every row of the performance table measures a buffer of the number of
\* bytes its entry of test_sizes states: the buffer handed to benchmark() has
\* exactly size bytes, and every printed row matches its label.
C10_BufferHasLabelledSize ==
    /\ mpc = "bench" => Len(data) = test_sizes[sizeIdx][1]
    /\ \A k \in DOMAIN rows : rows[k][1] = rows[k][2]

====
